---------------------------- MODULE Spec2Model ----------------------------
(***************************************************************************)
(* A model of pyramids.convert.Convert (src/pyramids/convert.py).          *)
(*                                                                         *)
(* The converter is a set of static, stateless functions over files on     *)
(* disk.  One behaviour of the model is one call: the initial state draws  *)
(* the call's arguments and the files on disk from bounded sets, and the   *)
(* action of the called function runs the whole call, leaving the raised   *)
(* exception (or "none"), the returned value, the I/O steps it performed   *)
(* and the files on disk afterwards.                                       *)
(***************************************************************************)
EXTENDS Integers, Sequences, FiniteSets, TLC

VARIABLES
    op,      \* the function called: "asciiToRaster", "rasterize", "rasterToDataframe"
    args,    \* the call's arguments (a record of tagged Python values)
    disk,    \* the files on disk: a function from paths to file contents
    pc,      \* "ready" before the call, "done" after it returned or raised
    raised,  \* the exception the call raised, "none" if it returned
    events,  \* the I/O steps the call performed, in order
    ret,     \* the returned value (NoValue when nothing is returned)
    locals   \* the local variables of rasterToDataframe when the call ended

vars == <<op, args, disk, pc, raised, events, ret, locals>>

----------------------------------------------------------------------------
(* Bounds of the model.                                                    *)

MaxDim == 2        \* rows and columns of an ASCII grid / a reference raster
MaxPixelType == 7  \* pixel_type codes tried: 0..MaxPixelType (1..6 are supported)

----------------------------------------------------------------------------
(* Python values: arguments carry their Python type.                       *)

None == [t |-> "none"]
PyStr(s) == [t |-> "str", v |-> s]
PyInt(n) == [t |-> "int", v |-> n]
Other == [t |-> "other"]       \* a value that is neither None, str nor int

IsNone(x) == x.t = "none"
IsStr(x) == x.t = "str"
IsInt(x) == x.t = "int"

NoValue == [t |-> "novalue"]

(* Paths are sequences of characters.                                      *)
DotAsc == <<".", "a", "s", "c">>
DotTif == <<".", "t", "i", "f">>

\* s[-4:] : the last four characters, the whole string when it is shorter
Last4(s) == IF Len(s) <= 4 THEN s ELSE SubSeq(s, Len(s) - 3, Len(s))

Exists(d, p) == p \in DOMAIN d

\* the disk d with file content c written at path p (created or overwritten)
WriteFile(d, p, c) == [q \in (DOMAIN d) \cup {p} |-> IF q = p THEN c ELSE d[q]]

----------------------------------------------------------------------------
(* Convert.asciiToRaster                                                   *)

\* the result of a run: the exception, the I/O steps, the disk afterwards
Res(exc, ev, d) == [raised |-> exc, events |-> ev, disk |-> d]

\* Raster.readASCII(ascii_file, pixel_type): the header of the grid file as
\* ASCIIDetails = [rows, columns, xllcorner, yllcorner, cellsize, NODATA]
ReadASCII(d, ascii_file) ==
    LET f == d[ascii_file]
    IN  <<f.nrows, f.ncols, f.xllcorner, f.yllcorner, f.cellsize, f.nodata>>

\* a chain whose branches for the codes 3 and 5 are exchanged
GdalTypeOf_Swapped(pixel_type) ==
    CASE pixel_type = 1 -> "GDT_Float32"
      [] pixel_type = 2 -> "GDT_Float64"
      [] pixel_type = 3 -> "GDT_Int16"
      [] pixel_type = 4 -> "GDT_UInt32"
      [] pixel_type = 5 -> "GDT_UInt16"
      [] pixel_type = 6 -> "GDT_Int32"
      [] OTHER -> "unbound"

\* the pixel_type if/elif chain of the epsg branch: the GDAL type created,
\* "unbound" when no branch assigns dst
GdalTypeOf(pixel_type) ==
    CASE pixel_type = 1 -> "GDT_Float32"
      [] pixel_type = 2 -> "GDT_Float64"
      [] pixel_type = 3 -> "GDT_UInt16"
      [] pixel_type = 4 -> "GDT_UInt32"
      [] pixel_type = 5 -> "GDT_Int16"
      [] pixel_type = 6 -> "GDT_Int32"
      [] OTHER -> "unbound"

\* the upper side computed from the column count instead of the row count
YUpperSide_Columns(ASCIIDetails) ==
    ASCIIDetails[4] + ASCIIDetails[2] * ASCIIDetails[5]

\* YUpperSide = ASCIIDetails[3] + ASCIIRows * CellSize
YUpperSide(ASCIIDetails) == ASCIIDetails[4] + ASCIIDetails[1] * ASCIIDetails[5]

\* dst_gt = (XLeftSide, CellSize, 0.0, YUpperSide, 0.0, -1 * CellSize)
DstGt(ASCIIDetails) ==
    <<ASCIIDetails[3], ASCIIDetails[5], 0, YUpperSide(ASCIIDetails), 0,
      (-1) * ASCIIDetails[5]>>

\* the guard left out: a call with neither input goes on to read the file
ModeGiven_Unchecked(raster_file, epsg) == TRUE

\* the first guard of both modes: raster_file is not None or epsg is not None
ModeGiven(raster_file, epsg) == ~IsNone(raster_file) \/ ~IsNone(epsg)

\* a comparison of the row counts alone
SameDims_RowsOnly(ASCIIRows, ASCIIColumns, RasterRows, RasterColumns) ==
    ASCIIRows = RasterRows

\* ASCIIRows == RasterRows and ASCIIColumns == RasterColumns
SameDims(ASCIIRows, ASCIIColumns, RasterRows, RasterColumns) ==
    ASCIIRows = RasterRows /\ ASCIIColumns = RasterColumns

\* Raster.rasterLike(src, array, path, pixel_type): a raster at path with the
\* dimensions, geotransform and projection of src and the values of array
RasterLike(d, ev, src, save_path, pixel_type) ==
    IF GdalTypeOf(pixel_type) = "unbound"
    THEN Res("UnboundLocalError", ev, d)
    ELSE Res("none", Append(ev, "Create"),
             WriteFile(d, save_path,
                       [kind |-> "raster", rows |-> src.rows, cols |-> src.cols,
                        bands |-> 1, dtype |-> GdalTypeOf(pixel_type),
                        gt |-> src.gt, epsg |-> src.epsg]))

\* the raster_file branch, after the ASCII file was read
FromRaster(d, ev, ASCIIDetails, save_path, pixel_type, raster_file) ==
    IF ~IsStr(raster_file) THEN Res("AssertionError", ev, d)
    ELSE IF Last4(raster_file.v) # DotTif THEN Res("AssertionError", ev, d)
    ELSE LET ev1 == Append(ev, "gdal.Open")
         IN  IF ~Exists(d, raster_file.v) \/ d[raster_file.v].kind # "raster"
             THEN \* gdal.Open returned None: src.RasterXSize
                  Res("AttributeError", ev1, d)
             ELSE LET src == d[raster_file.v]
                  IN  IF ~SameDims(ASCIIDetails[1], ASCIIDetails[2],
                                   src.rows, src.cols)
                      THEN Res("AssertionError", ev1, d)
                      ELSE RasterLike(d, ev1, src, save_path, pixel_type)

\* the epsg branch, after the ASCII file was read
FromEpsg(d, ev, ASCIIDetails, save_path, pixel_type, epsg) ==
    IF ~IsInt(epsg) THEN Res("AssertionError", ev, d)
    ELSE IF GdalTypeOf(pixel_type) = "unbound"
         THEN \* no branch created dst: dst.SetGeoTransform(dst_gt)
              Res("UnboundLocalError", ev, d)
         ELSE Res("none", Append(ev, "Create"),
                  WriteFile(d, save_path,
                            [kind |-> "raster", rows |-> ASCIIDetails[1],
                             cols |-> ASCIIDetails[2], bands |-> 1,
                             dtype |-> GdalTypeOf(pixel_type),
                             gt |-> DstGt(ASCIIDetails), epsg |-> epsg.v]))

\* Convert.asciiToRaster(ascii_file, save_path, pixel_type, raster_file, epsg)
AsciiToRasterRun(d, ascii_file, save_path, pixel_type, raster_file, epsg) ==
    IF ~IsStr(ascii_file) THEN Res("TypeError", <<>>, d)
    ELSE IF ~IsStr(save_path) THEN Res("TypeError", <<>>, d)
    ELSE IF ~IsInt(pixel_type) THEN Res("TypeError", <<>>, d)
    ELSE IF Last4(ascii_file.v) # DotAsc THEN Res("ValueError", <<>>, d)
    ELSE IF ~ModeGiven(raster_file, epsg) THEN Res("AssertionError", <<>>, d)
    ELSE LET ev == <<"readASCII">>
         IN  IF ~Exists(d, ascii_file.v) \/ d[ascii_file.v].kind # "ascii"
             THEN Res("FileNotFoundError", ev, d)
             ELSE LET ASCIIDetails == ReadASCII(d, ascii_file.v)
                  IN  IF ~IsNone(raster_file)
                      THEN FromRaster(d, ev, ASCIIDetails, save_path.v,
                                      pixel_type.v, raster_file)
                      ELSE FromEpsg(d, ev, ASCIIDetails, save_path.v,
                                    pixel_type.v, epsg)

----------------------------------------------------------------------------
(* The calls of asciiToRaster the model tries.                             *)

GridAsc == <<"g", ".", "a", "s", "c">>      \* an ASCII grid on disk
GoneAsc == <<"x", ".", "a", "s", "c">>      \* a path with no file
GridTxt == <<"g", ".", "t", "x", "t">>      \* a path lacking the extension
RefTif == <<"r", ".", "t", "i", "f">>       \* a reference raster on disk
GoneTif == <<"y", ".", "t", "i", "f">>      \* a path with no file
RefImg == <<"r", ".", "i", "m", "g">>       \* a path lacking the extension
OutTif == <<"o", ".", "t", "i", "f">>       \* the output path

YllCorners == {0, 3}
CellSizes == {1, 2}

AsciiHeaders ==
    [kind : {"ascii"}, nrows : 1..MaxDim, ncols : 1..MaxDim, xllcorner : {5},
     yllcorner : YllCorners, cellsize : CellSizes, nodata : {-9999}]

RefRasters ==
    [kind : {"raster"}, rows : 1..MaxDim, cols : 1..MaxDim, bands : {1},
     dtype : {"GDT_Float32"}, gt : {<<5, 1, 0, 9, 0, -1>>}, epsg : {32618}]

AsciiArgs ==
    [ascii_file : {Other, PyStr(GridAsc), PyStr(GoneAsc), PyStr(GridTxt)},
     save_path : {Other, PyStr(OutTif)},
     pixel_type : {Other} \cup {PyInt(n) : n \in 0..MaxPixelType},
     raster_file : {None, Other, PyStr(RefTif), PyStr(GoneTif), PyStr(RefImg)},
     epsg : {None, Other, PyInt(4326)}]

InitAscii ==
    /\ op = "asciiToRaster"
    /\ args \in AsciiArgs
    /\ \E h \in AsciiHeaders, r \in RefRasters :
          disk = [p \in {GridAsc, RefTif} |-> IF p = GridAsc THEN h ELSE r]
    /\ pc = "ready"
    /\ raised = "none"
    /\ events = <<>>
    /\ ret = NoValue
    /\ locals = NoValue

AsciiToRaster ==
    /\ pc = "ready"
    /\ op = "asciiToRaster"
    /\ \E r \in {AsciiToRasterRun(disk, args.ascii_file, args.save_path,
                                 args.pixel_type, args.raster_file, args.epsg)} :
          /\ raised' = r.raised
          /\ events' = r.events
          /\ disk' = r.disk
    /\ pc' = "done"
    /\ ret' = NoValue
    /\ UNCHANGED <<op, args, locals>>

SpecAscii == InitAscii /\ [][AsciiToRaster]_vars

----------------------------------------------------------------------------
(* Convert.rasterize                                                       *)

MaxRows == 3       \* rows of the raster that is rasterized onto / flattened
MaxCols == 2       \* its columns
MaxFeatures == 2   \* features of a vector file

\* the result of a run that may return a value
Res4(exc, ev, d, r) == [raised |-> exc, events |-> ev, disk |-> d, ret |-> r]

\* an opened gdal.Dataset passed where a path is expected
Dataset(content) == [t |-> "dataset", v |-> content]

Pixels(rows, cols) == (1..rows) \X (1..cols)

\* the pixels a geometry touches (allTouched=True): a block of the grid,
\* empty when the feature lies outside the raster
Touched(g) == (g.r1 .. g.r2) \X (g.c1 .. g.c2)

Max(S) == CHOOSE x \in S : \A y \in S : y <= x

\* Raster.openDataset(path): the dataset at a path, or the dataset itself
CanOpenDataset(d, x) ==
    \/ x.t = "dataset"
    \/ IsStr(x) /\ Exists(d, x.v) /\ d[x.v].kind = "raster"

OpenDataset(d, x) == IF x.t = "dataset" THEN x.v ELSE d[x.v]

\* Vector.openVector(path)
CanOpenVector(d, x) == IsStr(x) /\ Exists(d, x.v) /\ d[x.v].kind = "vector"

\* a comparison that never finds a difference
EpsgDiffer_Never(src_epsg, ds_epsg) == FALSE

\* if src_epsg != ds_epsg: raise ValueError
EpsgDiffer(src_epsg, ds_epsg) == src_epsg # ds_epsg

\* no_data_value=0 of the created raster
RasterizeNoData == 0

\* Raster.createEmptyDriver(src, out_path, bands=1, no_data_value): a raster
\* on the grid of src whose pixels all hold the no-data value
CreateEmptyDriver(src, no_data_value) ==
    [kind |-> "raster", rows |-> src.rows, cols |-> src.cols, bands |-> 1,
     dtype |-> src.dtype, gt |-> src.gt, epsg |-> src.epsg,
     nodata |-> no_data_value,
     px |-> [p \in Pixels(src.rows, src.cols) |-> no_data_value]]

\* options that burn the constant whatever vector_field is
RasterizeOptions_Constant(vector_field) ==
    [burnValues |-> <<1>>, attribute |-> None, allTouched |-> TRUE]

\* burn_values, attribute = [1], None without a field; None, field with one
RasterizeOptions(vector_field) ==
    IF IsNone(vector_field)
    THEN [burnValues |-> <<1>>, attribute |-> None, allTouched |-> TRUE]
    ELSE [burnValues |-> None, attribute |-> vector_field, allTouched |-> TRUE]

\* the value gdal.Rasterize burns for a feature
BurnOf(opts, feature) ==
    IF IsNone(opts.attribute) THEN opts.burnValues[1]
    ELSE feature[opts.attribute.v]

\* gdal.Rasterize(dr, vector, options): the features are burnt in file
\* order, each onto the pixels it touches; the other pixels are left alone
GdalRasterize(dr, features, opts) ==
    [dr EXCEPT !.px =
        [p \in DOMAIN dr.px |->
            LET over == {i \in 1..Len(features) : p \in Touched(features[i].geometry)}
            IN  IF over = {} THEN dr.px[p]
                ELSE BurnOf(opts, features[Max(over)])]]

\* Convert.rasterize(raster_path, vector_path, out_path, vector_field)
RasterizeRun(d, raster_path, vector_path, out_path, vector_field) ==
    IF ~CanOpenDataset(d, raster_path)
    THEN Res4("DatasetNoFoundError", <<"openDataset">>, d, NoValue)
    ELSE IF ~CanOpenVector(d, vector_path)
    THEN Res4("DatasetNoFoundError", <<"openDataset", "openVector">>, d, NoValue)
    ELSE LET src == OpenDataset(d, raster_path)
             ds == d[vector_path.v]
             ev == <<"openDataset", "openVector">>
         IN  IF EpsgDiffer(src.epsg, ds.epsg)
             THEN Res4("ValueError", ev, d, NoValue)
             ELSE LET dr == CreateEmptyDriver(src, RasterizeNoData)
                      out == GdalRasterize(dr, ds.features,
                                           RasterizeOptions(vector_field))
                  IN  Res4("none",
                           ev \o <<"createEmptyDriver", "gdal.Rasterize">>,
                           WriteFile(d, out_path, out), Dataset(out))

----------------------------------------------------------------------------
(* The calls of rasterize the model tries.                                 *)

DemTif == <<"d", ".", "t", "i", "f">>       \* the raster on disk
MaskShp == <<"m", ".", "s", "h", "p">>      \* the vector file on disk
GoneShp == <<"z", ".", "s", "h", "p">>      \* a path with no file
BurntTif == <<"b", ".", "t", "i", "f">>     \* the output path of rasterize

\* the geometries tried on a rows x cols grid: the blocks of whole rows
\* r1..r2 reaching from the first column to column c2, and one geometry
\* outside the grid
Geometries(rows, cols) ==
    {[r1 |-> a, r2 |-> b, c1 |-> 1, c2 |-> c] :
        <<a, b, c>> \in {t \in (1..rows) \X (1..rows) \X (1..cols) : t[1] <= t[2]}}
    \cup {[r1 |-> 1, r2 |-> 0, c1 |-> 1, c2 |-> 0]}

\* the attribute "val" of the i-th feature of a vector file
ValOf(i) == 10 * i + 1

\* the features of a vector file with the geometries gs
Features(gs) == [i \in 1..Len(gs) |-> [geometry |-> gs[i], val |-> ValOf(i)]]

\* the value of band b of the raster at row r, column c: every pixel of
\* the raster on disk holds values of its own
Val(r, c, b) == 100 * b + 10 * r + c

Rasters(bandCounts) ==
    [kind : {"raster"}, rows : 1..MaxRows, cols : 1..MaxCols, bands : bandCounts,
     dtype : {"GDT_Float32"}, gt : {<<5, 1, 0, 9, 0, -1>>}, epsg : {32618}]

VectorEpsgs == {32618, 4326}

\* the disk before a call: the raster r, and a vector file in EPSG e with
\* the geometries gs
RasterVectorDisk(r, e, gs) ==
    [p \in {DemTif, MaskShp} |->
        IF p = DemTif THEN r
        ELSE [kind |-> "vector", epsg |-> e, features |-> Features(gs)]]

RasterizeArgs ==
    [raster_path : {PyStr(DemTif), PyStr(GoneTif)},
     vector_path : {PyStr(MaskShp), PyStr(GoneShp)},
     out_path : {BurntTif},
     vector_field : {None, PyStr("val")}]

InitRasterize ==
    /\ op = "rasterize"
    /\ args \in RasterizeArgs
    /\ \E r \in Rasters({1}), e \in VectorEpsgs, n \in 0..MaxFeatures :
          \E gs \in [1..n -> Geometries(r.rows, r.cols)] :
              disk = RasterVectorDisk(r, e, gs)
    /\ pc = "ready"
    /\ raised = "none"
    /\ events = <<>>
    /\ ret = NoValue
    /\ locals = NoValue

Rasterize ==
    /\ pc = "ready"
    /\ op = "rasterize"
    /\ \E r \in {RasterizeRun(disk, args.raster_path, args.vector_path,
                             args.out_path, args.vector_field)} :
          /\ raised' = r.raised
          /\ events' = r.events
          /\ disk' = r.disk
          /\ ret' = r.ret
    /\ pc' = "done"
    /\ UNCHANGED <<op, args, locals>>

SpecRasterize == InitRasterize /\ [][Rasterize]_vars

----------------------------------------------------------------------------
(* Convert.rasterToDataframe                                               *)

MaxBands == 2      \* bands of the raster that is flattened

\* the side of a tile of Raster.getTile, scaled down to the rasters tried
TileSize == 2

Min2(a, b) == IF a <= b THEN a ELSE b

\* the result of a run with the local variables at its end
Res5(exc, ev, d, r, loc) ==
    [raised |-> exc, events |-> ev, disk |-> d, ret |-> r, locals |-> loc]

\* the temporary directory of tempfile.mkdtemp() and the two files in it
TmpDir == <<"T">>
TmpVec == <<"T", "/", "v">>
TmpMask == <<"T", "/", "m", ".", "t", "i", "f">>

IsPrefix(a, b) == Len(a) <= Len(b) /\ SubSeq(b, 1, Len(a)) = a

\* shutil.rmtree(temp_dir, ignore_errors=True)
Rmtree(d, dir) == [q \in {x \in DOMAIN d : ~IsPrefix(dir, x)} |-> d[q]]

\* Raster.getBandNames(src): the 1-based index of a band without a name
BandNameTable == <<"1", "2", "3", "4", "5", "6">>
BandNames(src) == SubSeq(BandNameTable, 1, src.bands)

\* the sequence f as a tuple of its elements
AsSeq(f) == SubSeq(f, 1, Len(f))

\* the positions of an nr x nc array in row-major order
RowMajor(nr, nc) ==
    [k \in 1..(nr * nc) |-> <<((k - 1) \div nc) + 1, ((k - 1) % nc) + 1>>]

\* Raster.getTile(src): the blocks of at most TileSize x TileSize pixels of
\* the raster, each read as an array (two-dimensional for a single band)
GetTile(src) ==
    LET nX == (src.cols + TileSize - 1) \div TileSize
        nY == (src.rows + TileSize - 1) \div TileSize
    IN  [k \in 1..(nX * nY) |->
            LET c0 == ((k - 1) \div nY) * TileSize + 1
                r0 == ((k - 1) % nY) * TileSize + 1
            IN  [ndim |-> IF src.bands = 1 THEN 2 ELSE 3,
                 bands |-> src.bands,
                 nr |-> Min2(TileSize, src.rows - r0 + 1),
                 nc |-> Min2(TileSize, src.cols - c0 + 1),
                 r0 |-> r0, c0 |-> c0]]

\* arr.shape
Shape(arr) ==
    IF arr.ndim = 2 THEN <<arr.nr, arr.nc>> ELSE <<arr.bands, arr.nr, arr.nc>>

\* np.ones((nr, nc))
Ones(nr, nc) == [nr |-> nr, nc |-> nc, at |-> [p \in Pixels(nr, nc) |-> 1]]

\* getPixels(arr, mask, mask_val).transpose(): one row of band values for
\* each position where the mask is mask_val (is not zero, without
\* mask_val), read from arr at that position
GetPixels(arr, mask, mask_val) ==
    LET Sel(p) == IF IsNone(mask_val) THEN mask.at[p] # 0
                  ELSE mask.at[p] = mask_val.v
        pos == SelectSeq(RowMajor(mask.nr, mask.nc), Sel)
    IN  IF \E k \in 1..Len(pos) : pos[k][1] > arr.nr \/ pos[k][2] > arr.nc
        THEN [exc |-> "IndexError", px |-> <<>>]
        ELSE [exc |-> "none",
              px |-> AsSeq([k \in 1..Len(pos) |->
                               AsSeq([b \in 1..arr.bands |->
                                         Val(arr.r0 + pos[k][1] - 1,
                                             arr.c0 + pos[k][2] - 1, b)])])]

\* pandas.DataFrame(data, columns): a table
DataFrame(rows, columns) == [columns |-> columns, rows |-> rows]

RECURSIVE Flatten(_)
Flatten(seqs) == IF seqs = <<>> THEN <<>> ELSE Head(seqs) \o Flatten(Tail(seqs))

\* pandas.concat(dfs) of tables with the same columns; raises on no table
CanConcat(dfs) == dfs # <<>>
Concat(dfs) ==
    DataFrame(Flatten(AsSeq([i \in 1..Len(dfs) |-> dfs[i].rows])),
              dfs[1].columns)

ColumnIndex(df, name) == CHOOSE i \in 1..Len(df.columns) : df.columns[i] = name

\* the columns of the GeoDataFrame read from the vector file, with the
\* added burn_value column
GdfColumns == <<"val", "geometry", "burn_value">>

\* df.merge(gdf, how="left", on=key): every row of df followed by the other
\* columns of the row of gdf with the same key
Merge(df, gdf, key) ==
    LET k == ColumnIndex(df, key)
        NotKey(c) == c # key
        others == SelectSeq(GdfColumns, NotKey)
        Match(row) == CHOOSE i \in 1..Len(gdf) : gdf[i][key] = row[k]
    IN  DataFrame(AsSeq([r \in 1..Len(df.rows) |->
                            df.rows[r] \o [c \in 1..Len(others) |->
                                              gdf[Match(df.rows[r])][others[c]]]]),
                  df.columns \o others)

\* df.drop(columns=names, errors="ignore")
Drop(df, names) ==
    LET Kept(i) == df.columns[i] \notin names
        keep == SelectSeq([i \in 1..Len(df.columns) |-> i], Kept)
    IN  DataFrame(AsSeq([r \in 1..Len(df.rows) |->
                            AsSeq([c \in 1..Len(keep) |-> df.rows[r][keep[c]]])]),
                  AsSeq([c \in 1..Len(keep) |-> df.columns[keep[c]]]))

\* gdf["burn_value"] = list(range(1, len(gdf) + 1))
AddBurnValue(features) ==
    AsSeq([i \in 1..Len(features) |->
              [geometry |-> features[i].geometry, val |-> features[i].val,
               burn_value |-> i]])

\* a shape read without the multiband case: always idx = (0, 1)
MaskShapeIdx_TwoDim(arr) == <<0, 1>>

\* idx = (1, 2), and (0, 1) if arr.ndim == 2
MaskShapeIdx(arr) == IF arr.ndim = 2 THEN <<0, 1>> ELSE <<1, 2>>

\* the table of one tile without a vector
PlainTile(arr, band_names) ==
    LET idx == MaskShapeIdx(arr)
        mask_arr == Ones(Shape(arr)[idx[1] + 1], Shape(arr)[idx[2] + 1])
        pixels == GetPixels(arr, mask_arr, None)
    IN  [exc |-> pixels.exc, df |-> DataFrame(pixels.px, band_names)]

\* the table of one tile with a vector: the pixels of every burn value,
\* tagged with it, joined with the attributes of the vector
MaskedTile(arr, mask_arr, gdf, band_names) ==
    LET got == AsSeq([i \in 1..Len(gdf) |->
                         GetPixels(arr, mask_arr, PyInt(gdf[i].burn_value))])
        mask_dfs ==
            AsSeq([i \in 1..Len(gdf) |->
                      DataFrame(AsSeq([r \in 1..Len(got[i].px) |->
                                          Append(got[i].px[r], gdf[i].burn_value)]),
                                Append(band_names, "burn_value"))])
    IN  IF \E i \in 1..Len(gdf) : got[i].exc # "none"
        THEN [exc |-> "IndexError", df |-> NoValue]
        ELSE IF ~CanConcat(mask_dfs)
        THEN [exc |-> "ValueError", df |-> NoValue]
        ELSE [exc |-> "none", df |-> Merge(Concat(mask_dfs), gdf, "burn_value")]

\* the exception of the first tile that raised one
FirstRaised(tiles) ==
    tiles[CHOOSE k \in 1..Len(tiles) :
             /\ tiles[k].exc # "none"
             /\ \A j \in 1..(k - 1) : tiles[j].exc = "none"].exc

LeftoverColumns == {"burn_value", "geometry"}

\* the branch with a vector, from the creation of the temporary directory
WithVector(d, src, band_names, vector) ==
    LET d1 == WriteFile(d, TmpDir, [kind |-> "dir"])
        ev1 == <<"openDataset", "mkdtemp", "openVector">>
    IN  IF ~CanOpenVector(d1, vector)
        THEN Res5("DatasetNoFoundError", ev1, d1, NoValue, NoValue)
        ELSE
        LET gdf == AddBurnValue(d1[vector.v].features)
            d2 == WriteFile(d1, TmpVec,
                            [kind |-> "vector", epsg |-> d1[vector.v].epsg,
                             features |-> gdf])
            rz == RasterizeRun(d2, Dataset(src), PyStr(TmpVec), TmpMask,
                               PyStr("burn_value"))
            ev2 == Append(ev1, "to_file") \o rz.events
            burns == AsSeq([i \in 1..Len(gdf) |-> gdf[i].burn_value])
        IN  IF rz.raised # "none"
            THEN Res5(rz.raised, ev2, rz.disk, NoValue,
                      [burn_values |-> burns])
            ELSE
            LET mask_arr == [nr |-> src.rows, nc |-> src.cols, at |-> rz.ret.v.px]
                arrs == GetTile(src)
                tiles == AsSeq([k \in 1..Len(arrs) |->
                                   MaskedTile(arrs[k], mask_arr, gdf, band_names)])
            IN  IF \E k \in 1..Len(tiles) : tiles[k].exc # "none"
                THEN Res5(FirstRaised(tiles), ev2, rz.disk, NoValue,
                          [burn_values |-> burns, mask_arr |-> mask_arr])
                ELSE
                LET out_df == Concat(AsSeq([k \in 1..Len(tiles) |-> tiles[k].df]))
                IN  Res5("none", Append(ev2, "rmtree"), Rmtree(rz.disk, TmpDir),
                         Drop(out_df, LeftoverColumns),
                         [burn_values |-> burns, mask_arr |-> mask_arr,
                          out_df |-> out_df])

\* the branch without a vector
WithoutVector(d, src, band_names) ==
    LET arrs == GetTile(src)
        tiles == AsSeq([k \in 1..Len(arrs) |-> PlainTile(arrs[k], band_names)])
    IN  IF \E k \in 1..Len(tiles) : tiles[k].exc # "none"
        THEN Res5(FirstRaised(tiles), <<"openDataset">>, d, NoValue, NoValue)
        ELSE LET out_df == Concat(AsSeq([k \in 1..Len(tiles) |-> tiles[k].df]))
             IN  Res5("none", <<"openDataset">>, d,
                      Drop(out_df, LeftoverColumns), [out_df |-> out_df])

\* Convert.rasterToDataframe(src, vector)
RasterToDataframeRun(d, src_path, vector) ==
    IF ~CanOpenDataset(d, src_path)
    THEN Res5("DatasetNoFoundError", <<"openDataset">>, d, NoValue, NoValue)
    ELSE LET src == OpenDataset(d, src_path)
             band_names == BandNames(src)
         IN  IF ~IsNone(vector)
             THEN WithVector(d, src, band_names, vector)
             ELSE WithoutVector(d, src, band_names)

----------------------------------------------------------------------------
(* The calls of rasterToDataframe the model tries.                         *)

\* the geometries of the mask features tried on a rows x cols grid: the
\* blocks of whole rows r1..r2, and one geometry outside the grid
RowBlocks(rows, cols) == {g \in Geometries(rows, cols) : g.c2 \in {0, cols}}

DataframeArgs ==
    [src : {PyStr(DemTif), PyStr(GoneTif)},
     vector : {None, PyStr(MaskShp), PyStr(GoneShp)}]

InitDataframe ==
    /\ op = "rasterToDataframe"
    /\ args \in DataframeArgs
    /\ \E r \in Rasters(1..MaxBands), e \in VectorEpsgs, n \in 0..MaxFeatures :
          \E gs \in [1..n -> RowBlocks(r.rows, r.cols)] :
              \* the features are read only from a vector in the raster's EPSG
              /\ (args.vector # PyStr(MaskShp) \/ args.src # PyStr(DemTif)
                     \/ e # r.epsg) => n = 0
              /\ disk = RasterVectorDisk(r, e, gs)
    /\ pc = "ready"
    /\ raised = "none"
    /\ events = <<>>
    /\ ret = NoValue
    /\ locals = NoValue

RasterToDataframe ==
    /\ pc = "ready"
    /\ op = "rasterToDataframe"
    /\ \E r \in {RasterToDataframeRun(disk, args.src, args.vector)} :
          /\ raised' = r.raised
          /\ events' = r.events
          /\ disk' = r.disk
          /\ ret' = r.ret
          /\ locals' = r.locals
    /\ pc' = "done"
    /\ UNCHANGED <<op, args>>

SpecDataframe == InitDataframe /\ [][RasterToDataframe]_vars

----------------------------------------------------------------------------
(* Convert.asciiFoldertoRaster                                             *)

MaxFiles == 3      \* files in the folder that is converted

Slash == <<"/">>
DesktopIni == <<"d", "e", "s", "k", "t", "o", "p", ".", "i", "n", "i">>

\* a directory on disk
Dir == [kind |-> "dir"]

\* path + "/" + name
Join(path, name) == path \o Slash \o name

\* f.endswith(suffix)
EndsWith(f, suffix) ==
    Len(suffix) <= Len(f) /\ SubSeq(f, Len(f) - Len(suffix) + 1, Len(f)) = suffix

\* the positions of s at which sep occurs
Occurrences(s, sep) ==
    {i \in 1..(Len(s) - Len(sep) + 1) : SubSeq(s, i, i + Len(sep) - 1) = sep}

\* s.split(sep)[0]: the part of s before its first occurrence of sep, the
\* whole of s when sep does not occur in it
SplitFirst(s, sep) ==
    IF Occurrences(s, sep) = {} THEN s
    ELSE SubSeq(s, 1, (CHOOSE i \in Occurrences(s, sep) :
                          \A j \in Occurrences(s, sep) : i <= j) - 1)

\* the names os.listdir(path) holds: the files directly under path
Names(d, path) ==
    {SubSeq(q, Len(path) + 2, Len(q)) :
        q \in {x \in DOMAIN d :
                 /\ IsPrefix(path \o Slash, x)
                 /\ Len(x) > Len(path) + 1
                 /\ \A i \in (Len(path) + 2)..Len(x) : x[i] # "/"}}

\* os.listdir(path) returns the names in arbitrary order
Listings(d, path) ==
    LET S == Names(d, path)
        n == Cardinality(S)
    IN  {AsSeq(f) : f \in {g \in [1..n -> S] : \A i, j \in 1..n :
                                                  g[i] = g[j] => i = j}}

\* files.remove("desktop.ini") when it is in the list
RemoveName(files, name) == SelectSeq(files, LAMBDA f : f # name)

\* a loop that goes on with the next file when a conversion raised
ConvertFiles_SkipFailed(d, ev, files, i, path, save_path, pixel_type, epsg) ==
    LET Step[k \in 1..(Len(files) + 1)] ==
            IF k = 1
            THEN Res5("none", ev, d, NoValue,
                      [files |-> files, converted |-> 0])
            ELSE LET prev == Step[k - 1]
                     r == AsciiToRasterRun(prev.disk,
                              PyStr(Join(path, files[k - 1])),
                              PyStr(Join(save_path,
                                         SplitFirst(files[k - 1], <<".">>)
                                             \o DotTif)),
                              pixel_type, None, epsg)
                 IN  Res5(IF r.raised # "none" THEN r.raised ELSE prev.raised,
                          prev.events \o r.events, r.disk, NoValue,
                          [files |-> files, converted |-> k - 1])
    IN  Step[Len(files) + 1]

\* the loop over the files, from the i-th on: each file is converted by
\* Convert.asciiToRaster(ASCIIFile, name, pixel_type, raster_file=None,
\* epsg=epsg); an exception of a conversion ends the loop and the call
RECURSIVE ConvertFiles(_, _, _, _, _, _, _, _)
ConvertFiles(d, ev, files, i, path, save_path, pixel_type, epsg) ==
    IF i > Len(files)
    THEN Res5("none", ev, d, NoValue,
              [files |-> files, converted |-> Len(files)])
    ELSE LET ASCIIFile == Join(path, files[i])
             name == Join(save_path, SplitFirst(files[i], <<".">>) \o DotTif)
             r == AsciiToRasterRun(d, PyStr(ASCIIFile), PyStr(name),
                                   pixel_type, None, epsg)
         IN  IF r.raised # "none"
             THEN Res5(r.raised, ev \o r.events, r.disk, NoValue,
                       [files |-> files, converted |-> i - 1])
             ELSE ConvertFiles(r.disk, ev \o r.events, files, i + 1, path,
                               save_path, pixel_type, epsg)

\* assert os.listdir(path) != "": a list never equals a string
ListingGiven(listing) == TRUE

\* assert all(f.endswith(".asc") for f in files)
AllAsc(files) == \A i \in 1..Len(files) : EndsWith(files[i], DotAsc)

\* Convert.asciiFoldertoRaster(path, save_path, pixel_type, Rraster_file,
\* epsg), listing being what os.listdir(path) returns in this call
AsciiFolderToRasterRun(d, path, save_path, pixel_type, Rraster_file, epsg, listing) ==
    IF ~IsStr(path) THEN Res5("AssertionError", <<>>, d, NoValue, NoValue)
    ELSE IF ~Exists(d, path.v)
         THEN Res5("AssertionError", <<>>, d, NoValue, NoValue)
    ELSE IF ~ListingGiven(listing)
         THEN Res5("AssertionError", <<>>, d, NoValue, NoValue)
    ELSE LET files == RemoveName(listing, DesktopIni)
         IN  IF ~AllAsc(files)
             THEN Res5("AssertionError", <<>>, d, NoValue, NoValue)
             ELSE IF files # <<>> /\ ~IsStr(save_path)
                  THEN \* save_path + "/"
                       Res5("TypeError", <<>>, d, NoValue,
                            [files |-> files, converted |-> 0])
                  ELSE ConvertFiles(d, <<>>, files, 1, path.v, save_path.v,
                                    pixel_type, epsg)

----------------------------------------------------------------------------
(* The calls of asciiFoldertoRaster the model tries.                       *)

AscDir == <<"F">>                           \* the folder of ASCII grids
GoneDir == <<"G">>                          \* a path with no folder
OutDir == <<"O">>                           \* the folder of the outputs

\* the names a folder may hold
FolderNames ==
    {<<"a", ".", "a", "s", "c">>, <<"b", ".", "a", "s", "c">>,
     <<"a", ".", "b", ".", "a", "s", "c">>, <<"c", ".", "t", "x", "t">>,
     DesktopIni}

\* a file that is no ASCII grid
Junk == [kind |-> "junk"]

\* what a file of a name may hold
ContentsOf(name) ==
    IF EndsWith(name, DotAsc)
    THEN {Junk} \cup
         [kind : {"ascii"}, nrows : 1..MaxDim, ncols : {1}, xllcorner : {5},
          yllcorner : {0}, cellsize : {1}, nodata : {-9999}]
    ELSE {Junk}

FolderRef ==
    [kind |-> "raster", rows |-> 1, cols |-> 1, bands |-> 1,
     dtype |-> "GDT_Float32", gt |-> <<5, 1, 0, 9, 0, -1>>, epsg |-> 32618]

\* the disk: the two folders, the reference raster and the files of S
FolderDisk(S, c) ==
    [p \in {AscDir, OutDir, RefTif} \cup {Join(AscDir, n) : n \in S} |->
        IF p \in {AscDir, OutDir} THEN Dir
        ELSE IF p = RefTif THEN FolderRef
        ELSE c[SubSeq(p, Len(AscDir) + 2, Len(p))]]

FolderArgs ==
    [path : {Other, PyStr(AscDir), PyStr(GoneDir)},
     save_path : {PyStr(OutDir)},
     pixel_type : {PyInt(1), PyInt(MaxPixelType)},
     Rraster_file : {None, PyStr(RefTif)},
     epsg : {None, PyInt(4326)}]

InitFolder ==
    /\ op = "asciiFoldertoRaster"
    /\ args \in FolderArgs
    /\ \E S \in {T \in SUBSET FolderNames : Cardinality(T) <= MaxFiles} :
          \E c \in [S -> UNION {ContentsOf(n) : n \in FolderNames}] :
             /\ \A n \in S : c[n] \in ContentsOf(n)
             /\ disk = FolderDisk(S, c)
    /\ pc = "ready"
    /\ raised = "none"
    /\ events = <<>>
    /\ ret = NoValue
    /\ locals = NoValue

AsciiFolderToRaster ==
    /\ pc = "ready"
    /\ op = "asciiFoldertoRaster"
    /\ \E listing \in (IF IsStr(args.path) /\ Exists(disk, args.path.v)
                       THEN Listings(disk, args.path.v) ELSE {<<>>}) :
          \E r \in {AsciiFolderToRasterRun(disk, args.path, args.save_path,
                                          args.pixel_type, args.Rraster_file,
                                          args.epsg, listing)} :
             /\ raised' = r.raised
             /\ events' = r.events
             /\ disk' = r.disk
             /\ ret' = r.ret
             /\ locals' = r.locals
    /\ pc' = "done"
    /\ UNCHANGED <<op, args>>

SpecFolder == InitFolder /\ [][AsciiFolderToRaster]_vars

----------------------------------------------------------------------------
(* Convert.nctoTiff                                                        *)

MaxLayers == 2     \* time steps of a NetCDF file

PyList(l) == [t |-> "list", v |-> l]
IsList(x) == x.t = "list"

DotChar == <<".">>
Underscore == <<"_">>

\* the decimal digits, as strftime writes them
Digit(n) == <<"0", "1", "2", "3", "4", "5", "6", "7", "8", "9">>[n + 1]
TwoDigits(n) == <<Digit((n \div 10) % 10), Digit(n % 10)>>
FourDigits(n) ==
    <<Digit((n \div 1000) % 10), Digit((n \div 100) % 10)>> \o TwoDigits(n)

\* strftime('%Y').strftime('%m'). ... .strftime('%S') of a time value: the
\* fraction of a second of the value is not written
Timestamp(time_one) ==
    FourDigits(time_one.Y) \o DotChar \o TwoDigits(time_one.m) \o DotChar
        \o TwoDigits(time_one.d) \o DotChar \o TwoDigits(time_one.H) \o DotChar
        \o TwoDigits(time_one.M) \o DotChar \o TwoDigits(time_one.S)

\* os.path.basename(p): what follows the last "/"
Basename(p) ==
    IF Occurrences(p, Slash) = {} THEN p
    ELSE SubSeq(p, Max(Occurrences(p, Slash)) + 1, Len(p))

\* os.path.splitext(p)[0]: p without its extension, the extension starting
\* at the last dot that is not the first character
Splitext0(p) ==
    IF Occurrences(p, DotChar) \ {1} = {} THEN p
    ELSE SubSeq(p, 1, Max(Occurrences(p, DotChar)) - 1)

\* os.path.join(a, b)
PathJoin(a, b) ==
    IF b # <<>> /\ Head(b) = "/" THEN b
    ELSE IF a = <<>> \/ a[Len(a)] = "/" THEN a \o b
    ELSE a \o Slash \o b

\* f"{x}" of a prefix: the string itself, "None" for None
Formatted(x) == IF IsNone(x) THEN <<"N", "o", "n", "e">> ELSE x.v

\* the paths netCDF4.Dataset / netCDF4.MFDataset open
NcPaths(input_nc) == IF IsStr(input_nc) THEN <<input_nc.v>> ELSE input_nc.v

CanOpenNc(d, input_nc) ==
    /\ NcPaths(input_nc) # <<>>
    /\ \A i \in 1..Len(NcPaths(input_nc)) :
          /\ Exists(d, NcPaths(input_nc)[i])
          /\ d[NcPaths(input_nc)[i]].kind = "nc"

\* netCDF4.Dataset(path) and netCDF4.MFDataset(paths): the files joined
\* along the time dimension, in the order given; bad is the first layer
\* whose read fails, 0 when every layer can be read
RECURSIVE OpenNc(_, _)
OpenNc(d, paths) ==
    IF Len(paths) = 1 THEN d[paths[1]]
    ELSE LET first == d[paths[1]]
             rest == OpenNc(d, Tail(paths))
         IN  [first EXCEPT
                 !.times = first.times \o rest.times,
                 !.bad = IF first.bad # 0 THEN first.bad
                         ELSE IF rest.bad # 0
                              THEN Len(first.times) + rest.bad
                              ELSE 0]

\* NC.ncDetails(nc): geo, epsg, time_len, time_var and datatype of the file
NcDetails(nc) ==
    [geo |-> nc.gt, epsg |-> nc.epsg, time_len |-> Len(nc.times),
     time_var |-> nc.times, datatype |-> nc.dtype]

\* the datatype if/elif chain: the GDAL type created and whether
\* ["COMPRESS=LZW"] is passed; "unbound" when no branch assigns dst
NcCreateOptions(datatype) ==
    CASE datatype = "float32" -> [type |-> "GDT_Float32", compress |-> TRUE]
      [] datatype = "float64" -> [type |-> "GDT_Float64", compress |-> FALSE]
      [] datatype = "uint16" -> [type |-> "GDT_UInt16", compress |-> TRUE]
      [] datatype = "uint32" -> [type |-> "GDT_UInt32", compress |-> TRUE]
      [] datatype = "int16" -> [type |-> "GDT_Int16", compress |-> TRUE]
      [] datatype = "int32" -> [type |-> "GDT_Int32", compress |-> TRUE]
      [] OTHER -> [type |-> "unbound", compress |-> FALSE]

\* name_out of the i-th time step
NameOut(save_to, time_len, time_var, i, nameparts, fname_prefix) ==
    IF time_len > 1
    THEN PathJoin(save_to, Formatted(nameparts) \o Underscore
                               \o Timestamp(time_var[i]) \o DotTif)
    ELSE PathJoin(save_to, Formatted(fname_prefix) \o DotTif)

\* a loop that catches the failure of a time step and goes on with the next
WriteLayers_SkipFailed(d, ev, nc, i, save_to, nameparts, fname_prefix, written) ==
    LET det == NcDetails(nc)
        Step[k \in 0..det.time_len] ==
            IF k = 0
            THEN Res5("none", ev, d, NoValue,
                      [nameparts |-> nameparts, fname_prefix |-> fname_prefix,
                       written |-> written])
            ELSE LET prev == Step[k - 1]
                     name_out == NameOut(save_to, det.time_len, det.time_var,
                                         k, nameparts, fname_prefix)
                     opts == NcCreateOptions(det.datatype)
                 IN  IF nc.bad = k \/ opts.type = "unbound"
                     THEN [prev EXCEPT !.raised = "RuntimeError",
                                       !.events = Append(prev.events, "read")]
                     ELSE [prev EXCEPT
                             !.events = prev.events \o <<"read", "Create">>,
                             !.disk = WriteFile(prev.disk, name_out,
                                 [kind |-> "raster", bands |-> 1,
                                  dtype |-> opts.type,
                                  compress |-> opts.compress, layer |-> k,
                                  gt |-> det.geo, epsg |-> det.epsg]),
                             !.locals.written =
                                 Append(prev.locals.written, name_out)]
    IN  Step[det.time_len]

\* the loop over the time steps, from the i-th on: the name, the read of
\* the layer, the creation of the output and its writing; an exception of a
\* step ends the loop and the call
RECURSIVE WriteLayers(_, _, _, _, _, _, _, _)
WriteLayers(d, ev, nc, i, save_to, nameparts, fname_prefix, written) ==
    LET det == NcDetails(nc)
        loc == [nameparts |-> nameparts, fname_prefix |-> fname_prefix,
                written |-> written]
    IN  IF i > det.time_len THEN Res5("none", ev, d, NoValue, loc)
        ELSE LET name_out == NameOut(save_to, det.time_len, det.time_var, i,
                                     nameparts, fname_prefix)
                 ev1 == Append(ev, "read")
                 opts == NcCreateOptions(det.datatype)
             IN  IF nc.bad = i
                 THEN \* data = dataset[i, :, :]
                      Res5("RuntimeError", ev1, d, NoValue, loc)
                 ELSE IF opts.type = "unbound"
                 THEN \* no branch created dst: dst.SetGeoTransform(geo)
                      Res5("UnboundLocalError", ev1, d, NoValue, loc)
                 ELSE WriteLayers(
                          WriteFile(d, name_out,
                                    [kind |-> "raster", bands |-> 1,
                                     dtype |-> opts.type,
                                     compress |-> opts.compress, layer |-> i,
                                     gt |-> det.geo, epsg |-> det.epsg]),
                          Append(ev1, "Create"), nc, i + 1, save_to, nameparts,
                          fname_prefix, Append(written, name_out))

\* Convert.nctoTiff(input_nc, save_to, separator, time_var_name, prefix)
NctoTiffRun(d, input_nc, save_to, separator, prefix) ==
    IF ~IsStr(input_nc) /\ ~IsList(input_nc)
    THEN Res5("TypeError", <<>>, d, NoValue, NoValue)
    ELSE IF ~CanOpenNc(d, input_nc)
    THEN Res5("FileNotFoundError", <<"open">>, d, NoValue, NoValue)
    ELSE LET nc == OpenNc(d, NcPaths(input_nc))
             time_len == NcDetails(nc).time_len
             made == ~Exists(d, save_to.v)
             d1 == IF made THEN WriteFile(d, save_to.v, Dir) ELSE d
             ev == IF made THEN <<"open", "mkdir">> ELSE <<"open">>
         IN  IF IsNone(prefix) /\ time_len > 1
             THEN IF ~IsStr(input_nc)
                  THEN \* os.path.basename(input_nc) of a list
                       Res5("TypeError", ev, d1, NoValue, NoValue)
                  ELSE IF ~IsStr(separator)
                  THEN Res5("TypeError", ev, d1, NoValue, NoValue)
                  ELSE IF separator.v = <<>>
                  THEN \* split("") : empty separator
                       Res5("ValueError", ev, d1, NoValue, NoValue)
                  ELSE LET fname_prefix ==
                               Splitext0(Basename(input_nc.v))
                           nameparts == SplitFirst(fname_prefix, separator.v)
                       IN  WriteLayers(d1, ev, nc, 1, save_to.v,
                                       PyStr(nameparts), PyStr(fname_prefix),
                                       <<>>)
             ELSE WriteLayers(d1, ev, nc, 1, save_to.v, prefix, prefix, <<>>)

----------------------------------------------------------------------------
(* The calls of nctoTiff the model tries.                                  *)

NcA == <<"N", "/", "p", "_", "1", ".", "a", ".", "n", "c">>
NcB == <<"N", "/", "q", "_", "2", ".", "n", "c">>
GoneNc == <<"N", "/", "z", ".", "n", "c">>
NewDir == <<"W">>                           \* an output folder not yet on disk

\* the time values of the layers: two in the same second, one a day later
NcTimes ==
    {[Y |-> 1979, m |-> 1, d |-> 1, H |-> 0, M |-> 0, S |-> 0, us |-> 0],
     [Y |-> 1979, m |-> 1, d |-> 1, H |-> 0, M |-> 0, S |-> 0, us |-> 500000],
     [Y |-> 1979, m |-> 1, d |-> 2, H |-> 6, M |-> 30, S |-> 15, us |-> 0]}

NcDatatypes == {"float32", "float64", "int16", "int64"}

\* the sequences over S of the lengths lo..hi
SeqsOf(S, lo, hi) ==
    UNION {{AsSeq(f) : f \in [1..n -> S]} : n \in lo..hi}

NcFiles(lens, dtypes) ==
    UNION {[kind : {"nc"}, times : {ts}, bad : 0..Len(ts), dtype : dtypes,
            gt : {<<5, 1, 0, 9, 0, -1>>}, epsg : {4326}] :
              ts \in SeqsOf(NcTimes, 1, lens)}

NcDisk(a, b) ==
    [p \in {<<"N">>, OutDir, NcA, NcB} |->
        IF p \in {<<"N">>, OutDir} THEN Dir ELSE IF p = NcA THEN a ELSE b]

NcArgs ==
    [input_nc : {Other, PyStr(NcA), PyStr(GoneNc), PyList(<<NcA>>),
                 PyList(<<NcA, NcB>>)},
     save_to : {PyStr(OutDir), PyStr(NewDir)},
     separator : {PyStr(Underscore), PyStr(DotChar), PyStr(<<>>)},
     prefix : {None, PyStr(<<"w">>)}]

InitNc ==
    /\ op = "nctoTiff"
    /\ args \in NcArgs
    /\ \E a \in NcFiles(MaxLayers, NcDatatypes) :
          \E b \in NcFiles(1, {a.dtype}) : disk = NcDisk(a, b)
    /\ pc = "ready"
    /\ raised = "none"
    /\ events = <<>>
    /\ ret = NoValue
    /\ locals = NoValue

NctoTiff ==
    /\ pc = "ready"
    /\ op = "nctoTiff"
    /\ \E r \in {NctoTiffRun(disk, args.input_nc, args.save_to,
                            args.separator, args.prefix)} :
          /\ raised' = r.raised
          /\ events' = r.events
          /\ disk' = r.disk
          /\ ret' = r.ret
          /\ locals' = r.locals
    /\ pc' = "done"
    /\ UNCHANGED <<op, args>>

SpecNc == InitNc /\ [][NctoTiff]_vars

----------------------------------------------------------------------------
(* The two conversions that write several outputs, one call of either.     *)

SpecBatch ==
    (InitFolder \/ InitNc) /\ [][AsciiFolderToRaster \/ NctoTiff]_vars

----------------------------------------------------------------------------
(* Dataset.read_separate_files                                             *)

\* the files of the listing that carry the extension, in listing order
WithExtension(listing, extension) ==
    SelectSeq(listing, LAMBDA f : EndsWith(f, extension))

\* the timestamp parsed from a file name: the number after its "_"
StampOf(f) ==
    LET at == Max(Occurrences(f, Underscore)) + 1
    IN  CHOOSE n \in 0..9 : Digit(n) = f[at]

\* the files reordered by their parsed timestamps
Ordered(files) == SortSeq(files, LAMBDA a, b : StampOf(a) < StampOf(b))

\* the row and column counts of a member raster
DimsOf(member) ==
    IF member.kind = "ascii" THEN <<member.nrows, member.ncols>>
    ELSE <<member.rows, member.cols>>

\* a check of the first member alone
SameShape_FirstOnly(members) == TRUE

\* all members share their row and column counts
SameShape(members) ==
    \A i, j \in 1..Len(members) : DimsOf(members[i]) = DimsOf(members[j])

\* Dataset.read_separate_files(path, extension, with_order), listing being
\* what the directory listing returns in this call
ReadSeparateFilesRun(d, path, extension, with_order, listing) ==
    IF ~Exists(d, path) THEN Res4("FileNotFoundError", <<>>, d, NoValue)
    ELSE LET matching == WithExtension(listing, extension)
             files == IF with_order THEN Ordered(matching) ELSE matching
             members == [i \in 1..Len(files) |-> d[Join(path, files[i])]]
         IN  IF files = <<>>
             THEN Res4("FileNotFoundError", <<"listdir">>, d, NoValue)
             ELSE IF ~SameShape(members)
             THEN Res4("ValueError", <<"listdir", "open">>, d, NoValue)
             ELSE Res4("none", <<"listdir", "open">>, d,
                       [t |-> "Dataset", files |-> files,
                        time_lenth |-> Len(files),
                        rows |-> DimsOf(members[1])[1],
                        columns |-> DimsOf(members[1])[2],
                        no_data_value |->
                            [i \in 1..Len(files) |-> members[i].nodata]])

----------------------------------------------------------------------------
(* The calls of read_separate_files the model tries.                       *)

RastersDir == <<"R">>

\* the names the folder may hold: rasters, ASCII grids and another file
RasterNames ==
    {<<"r", "_", "1", ".", "t", "i", "f">>, <<"r", "_", "2", ".", "t", "i", "f">>,
     <<"r", "_", "3", ".", "t", "i", "f">>, <<"r", "_", "1", ".", "a", "s", "c">>,
     <<"r", "_", "2", ".", "a", "s", "c">>, <<"n", ".", "t", "x", "t">>}

MemberContentsOf(name) ==
    IF EndsWith(name, DotTif)
    THEN [kind : {"raster"}, rows : 1..MaxDim, cols : 1..2, nodata : {-9999}]
    ELSE IF EndsWith(name, DotAsc)
    THEN [kind : {"ascii"}, nrows : 1..MaxDim, ncols : 1..2, nodata : {-9999}]
    ELSE {Junk}

RastersDisk(S, c) ==
    [p \in {RastersDir} \cup {Join(RastersDir, n) : n \in S} |->
        IF p = RastersDir THEN Dir
        ELSE c[SubSeq(p, Len(RastersDir) + 2, Len(p))]]

DatasetArgs ==
    [path : {RastersDir, GoneDir}, extension : {DotTif, DotAsc},
     with_order : BOOLEAN]

InitDataset ==
    /\ op = "read_separate_files"
    /\ args \in DatasetArgs
    /\ \E S \in {T \in SUBSET RasterNames : Cardinality(T) <= MaxFiles} :
          \E c \in [S -> UNION {MemberContentsOf(n) : n \in RasterNames}] :
             /\ \A n \in S : c[n] \in MemberContentsOf(n)
             /\ disk = RastersDisk(S, c)
    /\ pc = "ready"
    /\ raised = "none"
    /\ events = <<>>
    /\ ret = NoValue
    /\ locals = NoValue

ReadSeparateFiles ==
    /\ pc = "ready"
    /\ op = "read_separate_files"
    /\ \E listing \in (IF Exists(disk, args.path)
                       THEN Listings(disk, args.path) ELSE {<<>>}) :
          \E r \in {ReadSeparateFilesRun(disk, args.path, args.extension,
                                        args.with_order, listing)} :
             /\ raised' = r.raised
             /\ events' = r.events
             /\ disk' = r.disk
             /\ ret' = r.ret
    /\ pc' = "done"
    /\ UNCHANGED <<op, args, locals>>

SpecDataset == InitDataset /\ [][ReadSeparateFiles]_vars

----------------------------------------------------------------------------
(* Claims about Convert.asciiToRaster, checked under SpecAscii.            *)

AsciiDone == op = "asciiToRaster" /\ pc = "done"

NoIO == events = <<>>
OutputWritten == "Create" \in {events[i] : i \in 1..Len(events)}
AsciiRead == "readASCII" \in {events[i] : i \in 1..Len(events)}
RefOpened == "gdal.Open" \in {events[i] : i \in 1..Len(events)}

NeitherGiven == IsNone(args.raster_file) /\ IsNone(args.epsg)
BothGiven == ~IsNone(args.raster_file) /\ ~IsNone(args.epsg)

\* the other arguments of the call are well-formed and the grid file exists
PlainAsciiArgs ==
    /\ args.ascii_file = PyStr(GridAsc)
    /\ args.save_path = PyStr(OutTif)
    /\ IsInt(args.pixel_type)

SupportedPixelType == IsInt(args.pixel_type) /\ args.pixel_type.v \in 1..6

\* C2 as stated: a call giving neither or both of raster_file and epsg is
\* rejected with an error before the ASCII file is read, before the
\* reference raster is opened and before any output is created.
C2_ExactlyOneRequired ==
    (AsciiDone /\ (NeitherGiven \/ BothGiven)) =>
        (raised # "none" /\ NoIO /\ ~Exists(disk, OutTif))

\* C2 amended: a call giving neither raster_file nor epsg is rejected with
\* an error before any I/O; a call giving both is not rejected for it: it
\* runs in reference-raster mode and the epsg is ignored, so a raster it
\* writes carries the reference raster's projection and geotransform.
C2_AtLeastOneRequired ==
    /\ (AsciiDone /\ NeitherGiven) =>
           (raised # "none" /\ NoIO /\ ~Exists(disk, OutTif))
    /\ (AsciiDone /\ BothGiven /\ raised = "none") =>
           /\ RefOpened
           /\ Exists(disk, OutTif)
           /\ disk[OutTif].epsg = disk[args.raster_file.v].epsg
           /\ disk[OutTif].gt = disk[args.raster_file.v].gt

C2_Witness ==
    AsciiDone /\ NeitherGiven /\ PlainAsciiArgs /\ raised = "AssertionError"

\* C3 as stated: an integer pixel_type outside 1..6 is reported as an error
\* before any I/O: the ASCII file is not read and no output raster is
\* created.
C3_BadPixelTypeBeforeIO ==
    (AsciiDone /\ IsInt(args.pixel_type) /\ args.pixel_type.v \notin 1..6) =>
        (raised # "none" /\ ~AsciiRead /\ ~Exists(disk, OutTif))

\* the call ran in reference-raster mode up to the opened reference raster
RefMode ==
    /\ AsciiDone
    /\ RefOpened
    /\ Exists(disk, args.raster_file.v)

GridOf == disk[args.ascii_file.v]
RefOf == disk[args.raster_file.v]

\* C4: with a reference raster, a grid whose row or column count differs
\* from the reference's raises the dimension-mismatch error and writes no
\* output; when both counts match (and the pixel type is supported) the
\* output raster has the reference's row and column counts.
C4_ReferenceDimensions ==
    RefMode =>
        /\ (GridOf.nrows # RefOf.rows \/ GridOf.ncols # RefOf.cols) =>
               (raised = "AssertionError" /\ ~OutputWritten
                    /\ ~Exists(disk, OutTif))
        /\ (GridOf.nrows = RefOf.rows /\ GridOf.ncols = RefOf.cols
               /\ SupportedPixelType) =>
               /\ raised = "none"
               /\ Exists(disk, OutTif)
               /\ disk[OutTif].rows = RefOf.rows
               /\ disk[OutTif].cols = RefOf.cols

C4_Witness ==
    /\ RefMode
    /\ GridOf.nrows = RefOf.rows
    /\ GridOf.ncols # RefOf.cols
    /\ raised = "AssertionError"

\* the datatypes the docstring declares for the codes 1..6
DeclaredType ==
    <<"GDT_Float32", "GDT_Float64", "GDT_UInt16", "GDT_UInt32", "GDT_Int16",
      "GDT_Int32">>

\* C5: for every pixel_type code in 1..6 the raster asciiToRaster creates
\* has the declared datatype, the grid's column count as width, its row
\* count as height and one band; no raster is created for another code.
C5_DeclaredDatatype ==
    /\ (AsciiDone /\ raised = "none") => OutputWritten
    /\ (AsciiDone /\ OutputWritten) =>
           /\ SupportedPixelType
           /\ Exists(disk, OutTif)
           /\ disk[OutTif].dtype = DeclaredType[args.pixel_type.v]
           /\ disk[OutTif].cols = GridOf.ncols
           /\ disk[OutTif].rows = GridOf.nrows
           /\ disk[OutTif].bands = 1

C5_Witness ==
    /\ AsciiDone
    /\ OutputWritten
    /\ IsNone(args.raster_file)
    /\ args.pixel_type = PyInt(5)
    /\ disk[OutTif].dtype = "GDT_Int16"
    /\ GridOf.nrows # GridOf.ncols

\* C6: with an epsg code the raster is written with the geotransform
\* (xllcorner, cellsize, 0, yllcorner + nrows*cellsize, 0, -cellsize).
C6_EpsgGeotransform ==
    (AsciiDone /\ IsNone(args.raster_file) /\ raised = "none") =>
        /\ Exists(disk, OutTif)
        /\ disk[OutTif].gt =
               <<GridOf.xllcorner, GridOf.cellsize, 0,
                 GridOf.yllcorner + GridOf.nrows * GridOf.cellsize, 0,
                 0 - GridOf.cellsize>>
        /\ disk[OutTif].epsg = args.epsg.v

C6_Witness ==
    /\ AsciiDone
    /\ IsNone(args.raster_file)
    /\ raised = "none"
    /\ GridOf.nrows = 2 /\ GridOf.ncols = 1
    /\ GridOf.yllcorner = 3 /\ GridOf.cellsize = 2
    /\ disk[OutTif].gt[4] = 7
    /\ disk[OutTif].gt[6] = -2

----------------------------------------------------------------------------
(* Claims about Convert.rasterize, checked under SpecRasterize.            *)

RasterizeDone == op = "rasterize" /\ pc = "done"

Happened(e) == e \in {events[i] : i \in 1..Len(events)}

\* both inputs of the call were opened
RasterizeOpened ==
    /\ RasterizeDone
    /\ Exists(disk, args.raster_path.v)
    /\ Exists(disk, args.vector_path.v)

\* C7: rasterize with a raster and a vector whose EPSG ids differ raises
\* before the burn step: the output raster is not created, gdal.Rasterize
\* is not called, nothing is reprojected.
C7_EpsgMismatchRaisesBeforeBurn ==
    (RasterizeOpened
        /\ disk[args.raster_path.v].epsg # disk[args.vector_path.v].epsg) =>
        /\ raised = "ValueError"
        /\ ~Happened("createEmptyDriver")
        /\ ~Happened("gdal.Rasterize")
        /\ ~Exists(disk, args.out_path)
        /\ ret = NoValue

C7_Witness ==
    /\ RasterizeOpened
    /\ disk[args.raster_path.v].epsg = 32618
    /\ disk[args.vector_path.v].epsg = 4326
    /\ Len(disk[args.vector_path.v].features) = 2
    /\ raised = "ValueError"

\* the features of the rasterized vector that touch pixel p
Covering(p) ==
    LET fs == disk[args.vector_path.v].features
    IN  {i \in 1..Len(fs) : p \in Touched(fs[i].geometry)}

\* C8: without a vector_field every pixel touched by some feature is 1
\* and every other pixel is the no-data value 0; with a vector_field the
\* constant is not used: a touched pixel holds the field's value of a
\* feature touching it, every other pixel the no-data value 0.
C8_ConstantOrAttributeBurn ==
    (RasterizeDone /\ raised = "none") =>
        LET out == disk[args.out_path]
            fs == disk[args.vector_path.v].features
        IN  /\ out.nodata = 0
            /\ DOMAIN out.px =
                   Pixels(disk[args.raster_path.v].rows,
                          disk[args.raster_path.v].cols)
            /\ \A p \in DOMAIN out.px :
                   /\ Covering(p) = {} => out.px[p] = out.nodata
                   /\ (Covering(p) # {} /\ IsNone(args.vector_field)) =>
                          out.px[p] = 1
                   /\ (Covering(p) # {} /\ ~IsNone(args.vector_field)) =>
                          out.px[p] \in {fs[i].val : i \in Covering(p)}

C8_Witness ==
    /\ RasterizeDone
    /\ raised = "none"
    /\ IsNone(args.vector_field)
    /\ Len(disk[args.vector_path.v].features) = 2
    /\ \E p, q \in DOMAIN disk[args.out_path].px :
          /\ Cardinality(Covering(p)) = 2
          /\ disk[args.out_path].px[p] = 1
          /\ Covering(q) = {}
          /\ disk[args.out_path].px[q] = 0

----------------------------------------------------------------------------
(* Claims about Convert.rasterToDataframe, checked under SpecDataframe.    *)

DataframeDone == op = "rasterToDataframe" /\ pc = "done"

\* something of the temporary directory is on disk
TempLeft == \E q \in DOMAIN disk : IsPrefix(TmpDir, q)

\* C1 as stated: after a call with a vector mask the temporary directory
\* is gone, whether the call returned or raised.
C1_TempDirRemovedOnEveryExit ==
    (DataframeDone /\ ~IsNone(args.vector)) => ~TempLeft

\* the raster the call flattened
SrcOf == disk[args.src.v]

PlainCall == DataframeDone /\ IsNone(args.vector) /\ Exists(disk, args.src.v)

\* C9 as stated: without a mask the table has rows x columns x bands rows
\* and as many columns as the raster has bands.
C9_RowPerPixelPerBand ==
    (PlainCall /\ raised = "none") =>
        /\ Len(ret.rows) = SrcOf.rows * SrcOf.cols * SrcOf.bands
        /\ Len(ret.columns) = SrcOf.bands

\* C9 amended: without a mask the call returns a table with one row for
\* each pixel, rows x columns rows in all, and one column for each band
\* holding that band's value of the pixel.
C9_RowPerPixel ==
    PlainCall =>
        /\ raised = "none"
        /\ Len(ret.rows) = SrcOf.rows * SrcOf.cols
        /\ Len(ret.columns) = SrcOf.bands
        /\ \A p \in Pixels(SrcOf.rows, SrcOf.cols) :
               \E k \in 1..Len(ret.rows) :
                   ret.rows[k] = [b \in 1..SrcOf.bands |-> Val(p[1], p[2], b)]

C9_Witness ==
    /\ PlainCall
    /\ SrcOf.rows = 3 /\ SrcOf.cols = 2 /\ SrcOf.bands = 2
    /\ Len(ret.rows) = 6
    /\ Len(ret.columns) = 2

MaskedCall ==
    DataframeDone /\ ~IsNone(args.vector) /\ Exists(disk, args.src.v)
        /\ Exists(disk, args.vector.v)

\* C10 as stated: with a mask of N features the burn values are 1..N in
\* feature order; every extracted row is tagged with a burn value in 1..N
\* and is a pixel whose mask cell carries that value; the returned table
\* has no burn_value and no geometry column.
C10_MaskedRows ==
    (MaskedCall /\ raised = "none") =>
        LET N == Len(disk[args.vector.v].features)
            df == locals.out_df
            tag == ColumnIndex(df, "burn_value")
        IN  /\ locals.burn_values = [i \in 1..N |-> i]
            /\ \A k \in 1..Len(df.rows) :
                   /\ df.rows[k][tag] \in 1..N
                   /\ \E p \in Pixels(SrcOf.rows, SrcOf.cols) :
                          /\ \A b \in 1..SrcOf.bands :
                                 df.rows[k][b] = Val(p[1], p[2], b)
                          /\ locals.mask_arr.at[p] = df.rows[k][tag]
            /\ \A c \in 1..Len(ret.columns) :
                   ret.columns[c] \notin {"burn_value", "geometry"}

----------------------------------------------------------------------------
(* Claims about Convert.asciiFoldertoRaster, checked under SpecFolder.     *)

FolderDone == op = "asciiFoldertoRaster" /\ pc = "done"

\* the files of the folder besides desktop.ini, and the rasters written
InputNames == Names(disk, AscDir) \ {DesktopIni}
OutputNames == Names(disk, OutDir)

\* a file name with its four-character extension stripped
Stripped(f) == SubSeq(f, 1, Len(f) - Len(DotAsc))

\* the folder was listed, held only .asc files and every conversion succeeded
AllConverted ==
    /\ FolderDone
    /\ args.path = PyStr(AscDir)
    /\ raised = "none"
    /\ \A f \in InputNames : EndsWith(f, DotAsc)

\* C13: a folder of n distinct .asc files that all convert gives exactly n
\* output rasters, the one of input f named f with .asc stripped plus .tif,
\* so that two inputs never share an output path
C13_OneOutputPerInput ==
    AllConverted =>
        /\ OutputNames = {Stripped(f) \o DotTif : f \in InputNames}
        /\ Cardinality(OutputNames) = Cardinality(InputNames)

\* C14: a missing directory, an empty directory and a directory holding a
\* file other than desktop.ini without the .asc extension each make the call
\* fail before any file is converted, no output being written
C14_FolderPreconditions ==
    (/\ FolderDone
     /\ \/ args.path = PyStr(GoneDir)
        \/ args.path = PyStr(AscDir) /\ Names(disk, AscDir) = {}
        \/ args.path = PyStr(AscDir)
              /\ \E f \in InputNames : ~EndsWith(f, DotAsc))
    => (raised # "none" /\ events = <<>> /\ OutputNames = {})

\* the output the single-file conversion of f in reference-raster mode writes
\* at path out, NoValue when that conversion raises
ReferenceOutput(f, out) ==
    LET r == AsciiToRasterRun(disk, PyStr(Join(AscDir, f)), PyStr(out),
                              args.pixel_type, args.Rraster_file, None)
    IN  IF r.raised = "none" THEN r.disk[out] ELSE NoValue

\* C16: called with a reference raster and no epsg on a valid folder, every
\* file is converted as Convert.asciiToRaster(file, out, pixel_type,
\* raster_file=Rraster_file) converts it: its output carries the geotransform
\* and the spatial reference of the reference raster
C16_ReferenceModeForwarded ==
    (/\ FolderDone
     /\ args.path = PyStr(AscDir)
     /\ ~IsNone(args.Rraster_file)
     /\ IsNone(args.epsg)
     /\ InputNames # {}
     /\ \A f \in InputNames : EndsWith(f, DotAsc))
    => \A f \in InputNames :
          LET out == Join(OutDir, SplitFirst(f, <<".">>) \o DotTif)
          IN  ReferenceOutput(f, out) # NoValue =>
                 /\ Exists(disk, out)
                 /\ disk[out].gt = disk[RefTif].gt
                 /\ disk[out].epsg = disk[RefTif].epsg

----------------------------------------------------------------------------
(* Claims about Convert.nctoTiff, checked under SpecNc.                    *)

NcDone == op = "nctoTiff" /\ pc = "done"

\* the input could be opened: the dataset the call read
NcOpened ==
    NcDone /\ (IsStr(args.input_nc) \/ IsList(args.input_nc))
           /\ CanOpenNc(disk, args.input_nc)
NcInput == OpenNc(disk, NcPaths(args.input_nc))

\* the files in the output folder after the call
NcOutputs == Names(disk, args.save_to.v)

PairwiseDistinct(ts) == \A i, j \in 1..Len(ts) : ts[i] = ts[j] => i = j

\* <prefix>_<YYYY>.<mm>.<dd>.<HH>.<MM>.<SS>.tif
StampedName(pre, t) == pre \o Underscore \o Timestamp(t) \o DotTif

\* the names the outputs of a dataset must carry under the prefix pre
ExpectedNames(pre, ts) ==
    IF Len(ts) = 1 THEN {pre \o DotTif}
    ELSE {StampedName(pre, ts[i]) : i \in 1..Len(ts)}

\* C11: with a prefix, a single-layer input gives exactly one output named
\* <prefix>.tif, and a K-layer input with pairwise distinct time values gives
\* exactly K outputs, the i-th named after the i-th time value
C11_OneFilePerLayer ==
    (/\ NcOpened
     /\ IsStr(args.prefix)
     /\ NcInput.bad = 0
     /\ PairwiseDistinct(NcInput.times))
    => /\ NcOutputs = ExpectedNames(args.prefix.v, NcInput.times)
       /\ Cardinality(NcOutputs) = Len(NcInput.times)

\* the part of the first input's base name, extension removed, before the
\* first occurrence of the separator
DefaultPrefix ==
    SplitFirst(Splitext0(Basename(NcPaths(args.input_nc)[1])),
               args.separator.v)

\* C12: called without a prefix, the outputs carry as prefix the part of the
\* input's base name before the first separator, for single-layer and
\* multi-layer inputs and for a path as for a list of paths
C12_DefaultPrefix ==
    (/\ NcOpened
     /\ IsNone(args.prefix)
     /\ args.separator.v # <<>>
     /\ NcInput.bad = 0
     /\ NcCreateOptions(NcInput.dtype).type # "unbound")
    => /\ raised = "none"
       /\ NcOutputs \subseteq ExpectedNames(DefaultPrefix, NcInput.times)
       /\ NcOutputs # {}

----------------------------------------------------------------------------
(* Claims about both multi-output conversions, checked under SpecBatch.    *)

Count(ev, e) == Cardinality({i \in 1..Len(ev) : ev[i] = e})

\* the output path of the folder conversion for the file f, and the
\* exception the conversion of f alone ends with
OutOf(f) == Join(OutDir, SplitFirst(f, DotChar) \o DotTif)
RaisedBy(f) ==
    AsciiToRasterRun(disk, PyStr(Join(AscDir, f)), PyStr(OutOf(f)),
                     args.pixel_type, None, args.epsg).raised

\* the last of the first n items whose output path is that of item i
LastWriter(outs, i, n) == Max({j \in 1..n : outs[j] = outs[i]})

\* the folder conversion failed at its k-th file: the files before it were
\* converted, their outputs are on disk as written and nothing else is
FolderStoppedAt(k) ==
    LET files == locals.files
        outs == [i \in 1..Len(files) |-> OutOf(files[i])]
    IN  /\ RaisedBy(files[k]) # "none"
        /\ \A i \in 1..(k - 1) : RaisedBy(files[i]) = "none"
        /\ raised = RaisedBy(files[k])
        /\ Count(events, "Create") = k - 1
        /\ {Join(OutDir, n) : n \in OutputNames} = {outs[i] : i \in 1..(k - 1)}
        /\ \A i \in 1..(k - 1) :
              /\ disk[outs[i]].kind = "raster"
              /\ disk[outs[i]].rows =
                    disk[Join(AscDir, files[LastWriter(outs, i, k - 1)])].nrows

\* nctoTiff failed at its k-th time step: the steps before it wrote their
\* outputs, which are on disk as written, and no later step was run
NcStoppedAt(k) ==
    LET nc == NcInput
        outs == [i \in 1..Len(nc.times) |->
                    NameOut(args.save_to.v, Len(nc.times), nc.times, i,
                            locals.nameparts, locals.fname_prefix)]
    IN  /\ Count(events, "read") = k
        /\ Count(events, "Create") = k - 1
        /\ {Join(args.save_to.v, n) : n \in NcOutputs}
              = {outs[i] : i \in 1..(k - 1)}
        /\ \A i \in 1..(k - 1) :
              /\ disk[outs[i]].kind = "raster"
              /\ disk[outs[i]].layer = LastWriter(outs, i, k - 1)

\* C17: a folder conversion that fails at its k-th file, and a nctoTiff that
\* fails at its k-th time step, leave the outputs of the first k-1 items on
\* disk as written, process no later item and end with the failure
C17_NoRollbackNoRetry ==
    /\ (FolderDone /\ raised # "none" /\ locals # NoValue)
          => \E k \in 1..Len(locals.files) : FolderStoppedAt(k)
    /\ (NcDone /\ raised # "none" /\ locals # NoValue)
          => \E k \in 1..Len(NcInput.times) :
                /\ k = NcInput.bad
                      \/ (k = 1 /\ NcCreateOptions(NcInput.dtype).type = "unbound")
                /\ NcStoppedAt(k)

C17_Witness ==
    /\ FolderDone
    /\ raised # "none"
    /\ locals # NoValue
    /\ locals.converted >= 1
    /\ OutputNames # {}
    /\ Len(locals.files) > locals.converted + 1

----------------------------------------------------------------------------
(* Claims about Dataset.read_separate_files, checked under SpecDataset.    *)

DatasetDone == op = "read_separate_files" /\ pc = "done"

\* the files of the requested extension in the folder, and their contents
Members ==
    {n \in Names(disk, RastersDir) : EndsWith(n, args.extension)}
MemberDims == {DimsOf(disk[Join(RastersDir, n)]) : n \in Members}

\* C15: over a folder holding N >= 1 files of the requested extension, with
\* or without ordering, the collection read has time_length (the attribute
\* time_lenth of the tests) N and the rows
\* and columns the members share; when the members differ in their row or
\* column counts the read raises and returns no collection
C15_TimeLengthAndDims ==
    (DatasetDone /\ args.path = RastersDir /\ Members # {})
    => IF Cardinality(MemberDims) = 1
       THEN /\ raised = "none"
            /\ ret.time_lenth = Cardinality(Members)
            /\ <<ret.rows, ret.columns>> \in MemberDims
            /\ {ret.files[i] : i \in 1..Len(ret.files)} = Members
       ELSE raised # "none" /\ ret = NoValue

C15_Witness ==
    /\ DatasetDone
    /\ args.with_order
    /\ Cardinality(Members) >= 2
    /\ Cardinality(MemberDims) = 1
    /\ ret # NoValue
    /\ ret.time_lenth = Cardinality(Members)
    /\ Ordered(ret.files) = ret.files

=============================================================================
